---- MODULE Spec2Model ----
(***************************************************************************)
(* Model of primitives/phragmen/src/node.rs: the one-way graph node used   *)
(* by the reduce algorithm.  A NodeRef (Rc<RefCell<Node>>) is an index     *)
(* into `heap`, the sequence of allocated nodes; a Node is a record        *)
(* [id, parent] and a NodeId a record [who, role].  Several allocations    *)
(* may carry the same NodeId.                                              *)
(***************************************************************************)
EXTENDS Naturals, Sequences, FiniteSets, TLC

\* ---------------------------------------------------------------- bounds
\* Number of nodes that are ever allocated.
MaxNodes == 3
\* Account identifiers are 1..MaxWho.
MaxWho == 2
\* Longest parent_path the walk of a non-terminating call is followed for.
MaxPath == 5

\* ---------------------------------------------------------------- types
NodeRole == {"Voter", "Target"}

NodeId == [who : 1..MaxWho, role : NodeRole]

\* Option::None of the parent pointer; Some(r) is the reference r itself.
None == 0

VARIABLES
    heap,         \* Seq of Node: heap[r] is the node behind the NodeRef r
    pc,           \* position inside Node::root: "idle", "loop", "break", "return"
    initial,      \* local of Node::root
    current,      \* local of Node::root
    parent_path,  \* local of Node::root
    last          \* the most recent call: its arguments, its result, the heap before it

vars == <<heap, pc, initial, current, parent_path, last>>

NodeRefs(h) == 1..Len(h)

\* ---------------------------------------------------------------- equality
\* impl PartialEq for NodeId
NodeIdEq_WhoOnly(a, b) == a.who = b.who
NodeIdEq(a, b) == a.who = b.who /\ a.role = b.role

\* Ordering of two integers, as Ord::cmp gives it.
IntCmp(a, b) == IF a < b THEN "Less" ELSE IF a > b THEN "Greater" ELSE "Equal"

\* #[derive(Ord, PartialOrd)] on NodeRole: the variants in declaration order.
RoleRank(r) == IF r = "Voter" THEN 0 ELSE 1

NodeRoleCmp(a, b) == IntCmp(RoleRank(a), RoleRank(b))

\* #[derive(PartialOrd, Ord)] on NodeId: the fields in declaration order.
NodeIdCmp_RoleFirst(a, b) ==
    IF NodeRoleCmp(a.role, b.role) # "Equal"
    THEN NodeRoleCmp(a.role, b.role)
    ELSE IntCmp(a.who, b.who)
NodeIdCmp(a, b) ==
    IF IntCmp(a.who, b.who) # "Equal"
    THEN IntCmp(a.who, b.who)
    ELSE NodeRoleCmp(a.role, b.role)

\* impl PartialEq for Node: the parent field is not looked at.
NodeEq_Derived(a, b) == NodeIdEq(a.id, b.id) /\ a.parent = b.parent
NodeEq(a, b) == NodeIdEq(a.id, b.id)

\* Rc<RefCell<Node>> == Rc<RefCell<Node>>: both cells are borrowed and the
\* nodes inside compared.
NodeRefEq_Ptr(h, r1, r2) == r1 = r2
NodeRefEq(h, r1, r2) == NodeEq(h[r1], h[r2])

\* Option<&NodeRef> == Some(&NodeRef)
OptionEqSome(h, opt, r) == opt # None /\ NodeRefEq(h, opt, r)

\* ---------------------------------------------------------------- calls
\* ok: the call completed; FALSE when it panicked.
Call(op, who, other, ret) ==
    [op |-> op, who |-> who, other |-> other, ret |-> ret, before |-> heap,
     ok |-> TRUE]

\* RefCell: a borrow of one cell, shared (borrow) or exclusive (borrow_mut).
Borrow(cell, mut) == [cell |-> cell, mut |-> mut]

\* Borrows alive at the same time panic when two of them are of one cell and
\* one of the two is exclusive.
BorrowConflict(bs) ==
    \E i, j \in 1..Len(bs) :
        /\ i < j
        /\ bs[i].cell = bs[j].cell
        /\ bs[i].mut \/ bs[j].mut

Init ==
    /\ heap = << >>
    /\ pc = "idle"
    /\ initial = None
    /\ current = None
    /\ parent_path = << >>
    /\ last = [op |-> "init", who |-> None, other |-> None, ret |-> None,
               before |-> << >>, ok |-> TRUE]

\* Node::new(id).into_ref()
New(id) ==
    /\ pc = "idle"
    /\ Len(heap) < MaxNodes
    /\ heap' = Append(heap, [id |-> id, parent |-> None])
    /\ last' = Call("new", None, None, Len(heap) + 1)
    /\ UNCHANGED <<pc, initial, current, parent_path>>

\* a == b on two handles
Compare(a, b) ==
    /\ pc = "idle"
    /\ last' = Call("eq", a, b, NodeRefEq(heap, a, b))
    /\ UNCHANGED <<heap, pc, initial, current, parent_path>>

\* a.borrow().id.cmp(&b.borrow().id)
CompareIds(a, b) ==
    /\ pc = "idle"
    /\ last' = Call("cmp", a, b, NodeIdCmp(heap[a].id, heap[b].id))
    /\ UNCHANGED <<heap, pc, initial, current, parent_path>>

\* Node::is_parent_of
IsParentOfResult(h, who, other) ==
    IF h[who].parent = None
    THEN FALSE
    ELSE OptionEqSome(h, h[who].parent, other)

\* Line 99 borrows who and lets go; line 102 borrows who and, inside ==,
\* the parent and other.
IsParentOfBorrows_Mut(h, who, other) ==
    IF h[who].parent = None
    THEN <<Borrow(who, FALSE)>>
    ELSE <<Borrow(who, TRUE), Borrow(h[who].parent, FALSE), Borrow(other, FALSE)>>
IsParentOfBorrows(h, who, other) ==
    IF h[who].parent = None
    THEN <<Borrow(who, FALSE)>>
    ELSE <<Borrow(who, FALSE), Borrow(h[who].parent, FALSE), Borrow(other, FALSE)>>

IsParentOf(who, other) ==
    /\ pc = "idle"
    /\ LET ok == ~BorrowConflict(IsParentOfBorrows(heap, who, other)) IN
       last' = [Call("is_parent_of", who, other,
                     IF ok THEN IsParentOfResult(heap, who, other) ELSE None)
                EXCEPT !.ok = ok]
    /\ UNCHANGED <<heap, pc, initial, current, parent_path>>

\* Node::remove_parent
RemoveParentHeap_All(h, who) == [r \in 1..Len(h) |-> [h[r] EXCEPT !.parent = None]]
RemoveParentHeap(h, who) == [h EXCEPT ![who].parent = None]

\* who.borrow_mut()
RemoveParentBorrows(who) == <<Borrow(who, TRUE)>>

RemoveParent(who) ==
    /\ pc = "idle"
    /\ LET ok == ~BorrowConflict(RemoveParentBorrows(who)) IN
       /\ heap' = IF ok THEN RemoveParentHeap(heap, who) ELSE heap
       /\ last' = [Call("remove_parent", who, None, None) EXCEPT !.ok = ok]
    /\ UNCHANGED <<pc, initial, current, parent_path>>

\* Node::set_parent_of
SetParentHeap_Swapped(h, who, parent) == [h EXCEPT ![parent].parent = who]
SetParentHeap_KeepFirst(h, who, parent) ==
    IF h[who].parent = None THEN [h EXCEPT ![who].parent = parent] ELSE h
SetParentHeap(h, who, parent) == [h EXCEPT ![who].parent = parent]

\* who.borrow_mut(); parent.clone() copies the Rc and borrows no cell.
SetParentBorrows_CloneNode(who, parent) == <<Borrow(who, TRUE), Borrow(parent, FALSE)>>
SetParentBorrows(who, parent) == <<Borrow(who, TRUE)>>

SetParentOf(who, parent) ==
    /\ pc = "idle"
    /\ LET ok == ~BorrowConflict(SetParentBorrows(who, parent)) IN
       /\ heap' = IF ok THEN SetParentHeap(heap, who, parent) ELSE heap
       /\ last' = [Call("set_parent_of", who, parent, None) EXCEPT !.ok = ok]
    /\ UNCHANGED <<pc, initial, current, parent_path>>

\* ---------------------------------------------------------------- Node::root
\* `if initial == next_parent.clone() { break; }`
Guard_Never(h, init, next_parent) == FALSE
Guard(h, init, next_parent) == NodeRefEq(h, init, next_parent)

\* What the call just before returned, when it was root(start) too: <<result>>,
\* and << >> otherwise.
PrevRoot(start) ==
    IF last.op = "root" /\ last.who = start THEN <<last.ret>> ELSE << >>

\* Lines 120-123: the locals before the loop.
RootCall_EmptyPath(start) ==
    /\ pc = "idle"
    /\ initial' = start
    /\ parent_path' = << >>
    /\ current' = start
    /\ pc' = "loop"
    /\ last' = Call("root_call", start, PrevRoot(start), None)
    /\ UNCHANGED heap
RootCall(start) ==
    /\ pc = "idle"
    /\ initial' = start
    /\ parent_path' = <<start>>
    /\ current' = start
    /\ pc' = "loop"
    /\ last' = Call("root_call", start, PrevRoot(start), None)
    /\ UNCHANGED heap

\* One evaluation of `while let Some(ref next_parent) = current.borrow().parent`
\* and, when it matches, of the loop body: where control goes and the locals.
LoopStep_PushFirst(h, init, cur, path) ==
    LET next_parent == h[cur].parent IN
    IF next_parent = None
    THEN [pc |-> "return", current |-> cur, parent_path |-> path]
    ELSE IF Guard(h, init, next_parent)
    THEN [pc |-> "break", current |-> next_parent,
          parent_path |-> Append(path, next_parent)]
    ELSE [pc |-> "loop", current |-> next_parent,
          parent_path |-> Append(path, next_parent)]
LoopStep(h, init, cur, path) ==
    LET next_parent == h[cur].parent IN
    IF next_parent = None
    THEN [pc |-> "return", current |-> cur, parent_path |-> path]
    ELSE IF Guard(h, init, next_parent)
    THEN [pc |-> "break", current |-> cur, parent_path |-> path]
    ELSE [pc |-> "loop", current |-> next_parent,
          parent_path |-> Append(path, next_parent)]

RootLoop ==
    /\ pc = "loop"
    /\ LET s == LoopStep(heap, initial, current, parent_path) IN
       /\ Len(s.parent_path) <= MaxPath
       /\ pc' = s.pc
       /\ current' = s.current
       /\ parent_path' = s.parent_path
    /\ UNCHANGED <<heap, initial, last>>

\* `break` leaves the loop for the return expression.
RootBreak ==
    /\ pc = "break"
    /\ pc' = "return"
    /\ UNCHANGED <<heap, initial, current, parent_path, last>>

\* `(current, parent_path)`
RootReturn_Compress ==
    /\ pc = "return"
    /\ last' = [last EXCEPT !.op = "root",
                             !.ret = [root |-> current, path |-> parent_path]]
    /\ pc' = "idle"
    /\ initial' = None
    /\ current' = None
    /\ parent_path' = << >>
    /\ heap' = IF current = initial THEN heap
               ELSE [heap EXCEPT ![initial].parent = current]
RootReturn ==
    /\ pc = "return"
    /\ last' = [last EXCEPT !.op = "root",
                             !.ret = [root |-> current, path |-> parent_path]]
    /\ pc' = "idle"
    /\ initial' = None
    /\ current' = None
    /\ parent_path' = << >>
    /\ UNCHANGED heap

\* Node::root as a function of the heap: the loop run from the locals of
\* lines 120-123 to its exit.  A run of more than Len(h) iterations has pushed
\* some node twice and goes on for ever: term is FALSE and path is what was
\* pushed by then.
RECURSIVE RootRun(_, _, _, _, _)
RootRun(h, init, cur, path, fuel) ==
    LET s == LoopStep(h, init, cur, path) IN
    IF s.pc # "loop"
    THEN [term |-> TRUE, root |-> s.current, path |-> s.parent_path]
    ELSE IF fuel = 0
    THEN [term |-> FALSE, root |-> None, path |-> s.parent_path]
    ELSE RootRun(h, init, s.current, s.parent_path, fuel - 1)

RootResult(h, start) == RootRun(h, start, start, <<start>>, Len(h))

Next ==
    \/ \E id \in NodeId : New(id)
    \/ \E a, b \in NodeRefs(heap) : Compare(a, b)
    \/ \E a, b \in NodeRefs(heap) : CompareIds(a, b)
    \/ \E who, other \in NodeRefs(heap) : IsParentOf(who, other)
    \/ \E who \in NodeRefs(heap) : RemoveParent(who)
    \/ \E who, parent \in NodeRefs(heap) : SetParentOf(who, parent)
    \/ \E start \in NodeRefs(heap) : RootCall(start)
    \/ RootLoop
    \/ RootBreak
    \/ RootReturn

Spec == Init /\ [][Next]_vars

\* The call runs to completion once entered: no step of Node::root waits.
FairSpec == Spec /\ WF_vars(RootLoop) /\ WF_vars(RootBreak) /\ WF_vars(RootReturn)

TypeOK ==
    /\ heap \in Seq([id : NodeId, parent : 0..MaxNodes])
    /\ Len(heap) <= MaxNodes
    /\ \A r \in NodeRefs(heap) : heap[r].parent \in {None} \cup NodeRefs(heap)
    /\ pc \in {"idle", "loop", "break", "return"}

\* ---------------------------------------------------------------- shapes
\* The parent chain of v by allocation: v, its parent, the parent's parent, ...
\* up to the first parentless node, cut after n links.
RECURSIVE ChainFrom(_, _, _)
ChainFrom(h, v, n) ==
    IF n = 0 \/ h[v].parent = None
    THEN <<v>>
    ELSE <<v>> \o ChainFrom(h, h[v].parent, n - 1)

\* Len(h) links suffice: a chain that long has come back to a node it visited.
Chain(h, v) == ChainFrom(h, v, Len(h))

LastOf(s) == s[Len(s)]

\* v0 -> v1 -> ... -> vn with vn parentless.
EndsParentless(h, v) == h[LastOf(Chain(h, v))].parent = None

\* Some node of the chain has v itself as its parent.
CycleThroughStart(h, v) ==
    \E k \in 1..Len(Chain(h, v)) : h[Chain(h, v)[k]].parent = v

\* The chain runs into a cycle that v is not on.
ForeignCycle(h, v) == ~EndsParentless(h, v) /\ ~CycleThroughStart(h, v)

\* For a cycle through v: v, ..., z where z is the first node whose parent is v.
CyclePath(h, v) ==
    LET c == Chain(h, v)
        z == CHOOSE k \in 1..Len(c) :
                /\ h[c[k]].parent = v
                /\ \A j \in 1..(k - 1) : h[c[j]].parent # v
    IN  SubSeq(c, 1, z)

\* A node of the chain other than v itself carries the id of v.
TwinOnChain(h, v) ==
    \E k \in 1..Len(Chain(h, v)) :
        /\ Chain(h, v)[k] # v
        /\ h[Chain(h, v)[k]].id = h[v].id

Returned == last.op = "root"

InRoot == pc \in {"loop", "break", "return"}

\* ---------------------------------------------------------------- C1
\* C1: a call root(start) whose parent chain is a finite chain ending in a
\* parentless node, or a cycle through start, reaches its return expression.
C1_RootTerminates ==
    (pc = "loop" /\ (EndsParentless(heap, initial) \/ CycleThroughStart(heap, initial)))
        ~> (pc = "return")

C1_Witness ==
    /\ pc = "return"
    /\ CycleThroughStart(heap, initial)
    /\ Len(parent_path) = 3

\* ---------------------------------------------------------------- C2
\* C2 as stated: on a chain v0 -> ... -> vn with vn parentless, root(v0)
\* returns vn and the path [v0, ..., vn].
C2_Original ==
    (Returned /\ EndsParentless(heap, last.who)) =>
        last.ret = [root |-> LastOf(Chain(heap, last.who)),
                    path |-> Chain(heap, last.who)]

\* C2 amended: the same, when no other node of the chain carries the id of v0.
C2_AcyclicChain ==
    (Returned /\ EndsParentless(heap, last.who) /\ ~TwinOnChain(heap, last.who)) =>
        last.ret = [root |-> LastOf(Chain(heap, last.who)),
                    path |-> Chain(heap, last.who)]

C2_Witness ==
    /\ Returned
    /\ EndsParentless(heap, last.who)
    /\ ~TwinOnChain(heap, last.who)
    /\ Len(last.ret.path) = 3
    /\ heap[last.ret.root].parent = None

\* ---------------------------------------------------------------- C3
\* C3 as stated: on a cycle a -> b -> ... -> z -> a, root(a) returns z and the
\* path [a, b, ..., z].
C3_Original ==
    (Returned /\ CycleThroughStart(heap, last.who)) =>
        last.ret = [root |-> LastOf(CyclePath(heap, last.who)),
                    path |-> CyclePath(heap, last.who)]

\* C3 amended: the same, when no other node of the cycle carries the id of a.
C3_CycleThroughStart ==
    (Returned /\ CycleThroughStart(heap, last.who) /\ ~TwinOnChain(heap, last.who)) =>
        /\ last.ret = [root |-> LastOf(CyclePath(heap, last.who)),
                       path |-> CyclePath(heap, last.who)]
        /\ heap[last.ret.root].parent = last.who
        /\ \A k \in 2..Len(last.ret.path) : last.ret.path[k] # last.who

C3_Witness ==
    /\ Returned
    /\ CycleThroughStart(heap, last.who)
    /\ ~TwinOnChain(heap, last.who)
    /\ Len(last.ret.path) = 3
    /\ heap[last.ret.root].parent = last.who

\* ---------------------------------------------------------------- C4
\* The loop is at its head and its next evaluation pushes another node.
LoopContinues ==
    /\ pc = "loop"
    /\ heap[current].parent # None
    /\ heap[heap[current].parent].id # heap[initial].id

\* C4 as stated: when the chain from start runs into a cycle start is not on,
\* the call never leaves the loop.
C4_Original ==
    (InRoot /\ ForeignCycle(heap, initial)) => LoopContinues

\* C4 amended: the same, when no node of the chain carries the id of start.
C4_ForeignCycleDiverges ==
    (InRoot /\ ForeignCycle(heap, initial) /\ ~TwinOnChain(heap, initial)) =>
        LoopContinues

\* The walk has gone round the cycle: a node is on parent_path twice.
C4_Witness ==
    /\ pc = "loop"
    /\ ForeignCycle(heap, initial)
    /\ ~TwinOnChain(heap, initial)
    /\ Len(parent_path) = MaxPath
    /\ \E i, j \in 1..Len(parent_path) : i < j /\ parent_path[i] = parent_path[j]

\* ---------------------------------------------------------------- C5
\* C5: for a self-parented v the guard fires in the first iteration and
\* root(v) returns v with the path [v].
C5_SelfParent ==
    /\ (InRoot /\ heap[initial].parent = initial) =>
            /\ current = initial
            /\ parent_path = <<initial>>
    /\ (Returned /\ heap[last.who].parent = last.who) =>
            last.ret = [root |-> last.who, path |-> <<last.who>>]

C5_Witness ==
    /\ Returned
    /\ heap[last.who].parent = last.who
    /\ last.ret = [root |-> last.who, path |-> <<last.who>>]

\* ---------------------------------------------------------------- C6
\* The walk of root(w) on heap h pushes v.
Reaches(h, w, v) ==
    \E k \in 1..Len(RootResult(h, w).path) : RootResult(h, w).path[k] = v

\* The parent chain of w on heap h passes through v.
OnChain(h, w, v) == \E k \in 1..Len(Chain(h, w)) : Chain(h, w)[k] = v

IdsOf(h, path) == [k \in 1..Len(path) |-> h[path[k]].id]

\* The last call gave last.who, which had a parent, another node as parent.
Reparented ==
    /\ last.op = "set_parent_of"
    /\ last.before[last.who].parent # None
    /\ last.before[last.who].parent # last.other

\* C6 as stated: re-parenting v changes the result of root for v and for every
\* node whose parent chain passes through v, and for no other node.
C6_Original ==
    Reparented =>
        \A w \in NodeRefs(heap) :
            IF OnChain(last.before, w, last.who)
            THEN RootResult(heap, w) # RootResult(last.before, w)
            ELSE RootResult(heap, w) = RootResult(last.before, w)

\* C6 amended: when the new parent does not carry the id of the previous one,
\* every call root(w) whose walk reaches v and which returns before and after
\* returns another path (as nodes and as ids); a call whose walk does not
\* reach v runs as before.
C6_Reparent ==
    last.op = "set_parent_of" =>
        \A w \in NodeRefs(heap) :
            LET old == RootResult(last.before, w)
                new == RootResult(heap, w)
            IN  /\ ( /\ Reparented
                     /\ heap[last.other].id # heap[last.before[last.who].parent].id
                     /\ Reaches(last.before, w, last.who)
                     /\ old.term /\ new.term )
                    => /\ new # old
                       /\ IdsOf(heap, new.path) # IdsOf(heap, old.path)
                /\ ~Reaches(last.before, w, last.who) => new = old

\* w -> v -> p becomes w -> v -> w: root(w) and root(v) change, root(p) does not.
C6_Witness ==
    /\ Reparented
    /\ heap[last.other].id # heap[last.before[last.who].parent].id
    /\ \E w, u \in NodeRefs(heap) :
        /\ w # last.who
        /\ Reaches(last.before, w, last.who)
        /\ RootResult(last.before, w).term
        /\ RootResult(heap, w).term
        /\ RootResult(heap, w) # RootResult(last.before, w)
        /\ RootResult(heap, last.who) # RootResult(last.before, last.who)
        /\ ~Reaches(last.before, u, last.who)
        /\ RootResult(heap, u) = RootResult(last.before, u)

\* ---------------------------------------------------------------- C7
\* C7: two nodes, and two handles, compare equal iff their ids are equal,
\* whatever their parent fields and whether or not they are one allocation.
C7_EqualityById ==
    /\ \A a, b \in NodeRefs(heap) :
        /\ NodeRefEq(heap, a, b) <=> (heap[a].id = heap[b].id)
        /\ \A q \in {None} \cup NodeRefs(heap) :
              NodeEq(heap[a], [heap[b] EXCEPT !.parent = q])
                  <=> (heap[a].id = heap[b].id)
    /\ last.op = "eq" => (last.ret <=> (heap[last.who].id = heap[last.other].id))

\* Two allocations, different parents, one of them on a cycle: equal.
C7_Witness ==
    /\ last.op = "eq"
    /\ last.who # last.other
    /\ heap[last.who].parent # heap[last.other].parent
    /\ CycleThroughStart(heap, last.who)
    /\ last.ret = TRUE

\* ---------------------------------------------------------------- C8
\* C8: (p, Voter) and (p, Target) are never equal; two ids are equal iff the
\* principals are equal and the roles are equal.
C8_RolesDistinguish ==
    /\ \A i, j \in NodeId :
        NodeIdEq(i, j) <=> (i.who = j.who /\ i.role = j.role)
    /\ \A p \in 1..MaxWho :
        ~NodeIdEq([who |-> p, role |-> "Voter"], [who |-> p, role |-> "Target"])
    /\ last.op = "eq" =>
        /\ last.ret <=> ( /\ heap[last.who].id.who = heap[last.other].id.who
                          /\ heap[last.who].id.role = heap[last.other].id.role )
        /\ ( /\ heap[last.who].id.who = heap[last.other].id.who
             /\ heap[last.who].id.role # heap[last.other].id.role ) => ~last.ret

C8_Witness ==
    /\ last.op = "eq"
    /\ heap[last.who].id.who = heap[last.other].id.who
    /\ heap[last.who].id.role = "Voter"
    /\ heap[last.other].id.role = "Target"
    /\ last.ret = FALSE

\* ---------------------------------------------------------------- C9
\* C9: is_parent_of(who, other) is true iff who has a parent and the parent
\* carries the id of other, false when who has no parent, and changes no node.
C9_IsParentOf ==
    last.op = "is_parent_of" =>
        LET p == last.before[last.who].parent IN
        /\ last.ret <=> (p # None /\ last.before[p].id = last.before[last.other].id)
        /\ p = None => last.ret = FALSE
        /\ heap = last.before

\* True for a handle that is not the allocation stored as parent.
C9_Witness ==
    /\ last.op = "is_parent_of"
    /\ last.ret = TRUE
    /\ heap[last.who].parent # last.other

\* ---------------------------------------------------------------- C10
\* C10: set_parent_of(who, parent) is accepted for every pair of handles;
\* afterwards parent is the parent of who, replacing any previous one, and no
\* other node and no id has changed.
C10_SetParentOf ==
    /\ pc = "idle" =>
        \A who, parent \in NodeRefs(heap) : ENABLED SetParentOf(who, parent)
    /\ last.op = "set_parent_of" =>
        /\ heap[last.who].parent = last.other
        /\ IsParentOfResult(heap, last.who, last.other)
        /\ heap[last.who].id = last.before[last.who].id
        /\ Len(heap) = Len(last.before)
        /\ \A o \in NodeRefs(heap) : o # last.who => heap[o] = last.before[o]

\* A previous parent is replaced and the new link closes a cycle.
C10_Witness ==
    /\ last.op = "set_parent_of"
    /\ last.before[last.who].parent \notin {None, last.other}
    /\ last.who # last.other
    /\ CycleThroughStart(heap, last.who)
    /\ ~CycleThroughStart(last.before, last.who)

\* ---------------------------------------------------------------- C11
\* C11: remove_parent(who) leaves who without a parent whatever it had before:
\* is_parent_of(who, x) is false for every x, root(who) is (who, [who]), and no
\* other node has changed.
C11_RemoveParent ==
    last.op = "remove_parent" =>
        /\ heap[last.who].parent = None
        /\ \A x \in NodeRefs(heap) : ~IsParentOfResult(heap, last.who, x)
        /\ RootResult(heap, last.who)
              = [term |-> TRUE, root |-> last.who, path |-> <<last.who>>]
        /\ heap[last.who].id = last.before[last.who].id
        /\ Len(heap) = Len(last.before)
        /\ \A o \in NodeRefs(heap) : o # last.who => heap[o] = last.before[o]

\* The node was on a cycle of three and the other two keep their parents.
C11_Witness ==
    /\ last.op = "remove_parent"
    /\ CycleThroughStart(last.before, last.who)
    /\ Len(CyclePath(last.before, last.who)) = 3
    /\ heap[last.who].parent = None
    /\ \E o \in NodeRefs(heap) : heap[o].parent = last.who

\* ---------------------------------------------------------------- C12
\* C12: new, set_parent_of, remove_parent and is_parent_of can be called with
\* every choice of handles in every state between calls, and none of them
\* panics.
C12_Total ==
    /\ pc = "idle" =>
        /\ \A who, other \in NodeRefs(heap) :
              /\ ENABLED SetParentOf(who, other)
              /\ ENABLED IsParentOf(who, other)
              /\ ENABLED RemoveParent(who)
        /\ Len(heap) < MaxNodes => \A id \in NodeId : ENABLED New(id)
        /\ \A who, other \in NodeRefs(heap) :
              /\ ~BorrowConflict(SetParentBorrows(who, other))
              /\ ~BorrowConflict(IsParentOfBorrows(heap, who, other))
              /\ ~BorrowConflict(RemoveParentBorrows(who))
    /\ last.op \in {"new", "set_parent_of", "remove_parent", "is_parent_of"} =>
        last.ok

\* Both arguments are one handle, on a heap that already holds a cycle.
C12_Witness ==
    /\ last.op = "is_parent_of"
    /\ last.who = last.other
    /\ heap[last.who].parent = last.who
    /\ \E o \in NodeRefs(heap) : o # last.who /\ CycleThroughStart(heap, o)
    /\ last.ok
    /\ last.ret = TRUE

\* ---------------------------------------------------------------- C13
\* C13: the path root(start) returns is not empty, starts with start and ends
\* with the node returned as root; the locals keep that shape all through the
\* call.
C13_PathEnds ==
    /\ InRoot =>
        /\ Len(parent_path) >= 1
        /\ parent_path[1] = initial
        /\ LastOf(parent_path) = current
    /\ Returned =>
        /\ Len(last.ret.path) >= 1
        /\ last.ret.path[1] = last.who
        /\ LastOf(last.ret.path) = last.ret.root

\* Returned by the guard, on a cycle of two.
C13_Witness ==
    /\ Returned
    /\ Len(last.ret.path) = 2
    /\ heap[last.ret.root].parent = last.who
    /\ last.ret.path[1] = last.who
    /\ last.ret.path[2] = last.ret.root

\* ---------------------------------------------------------------- C14
\* C14: the walk stops the first time the next parent carries the id of start,
\* be it start itself or another allocation; that parent is not pushed and
\* current stays, so no element of the path after the first carries the id of
\* start.
C14_GuardById ==
    /\ InRoot =>
        \A k \in 2..Len(parent_path) : heap[parent_path[k]].id # heap[initial].id
    /\ pc = "break" =>
        /\ heap[current].parent # None
        /\ heap[heap[current].parent].id = heap[initial].id
        /\ current = LastOf(parent_path)
    /\ (pc = "loop" /\ Len(parent_path) < MaxPath) =>
        \/ heap[current].parent = None
        \/ (heap[heap[current].parent].id = heap[initial].id)
              <=> (LoopStep(heap, initial, current, parent_path)
                      = [pc |-> "break", current |-> current,
                         parent_path |-> parent_path])
    /\ Returned =>
        \A k \in 2..Len(last.ret.path) :
            heap[last.ret.path[k]].id # heap[last.who].id

\* The guard fires on another allocation that carries the id of start.
C14_Witness ==
    /\ pc = "break"
    /\ Len(parent_path) = 2
    /\ heap[current].parent # initial
    /\ heap[heap[current].parent].id = heap[initial].id

\* ---------------------------------------------------------------- C15
\* C15: consecutive elements of the returned path are parent links, and the
\* returned root has no parent or a parent that carries the id of start.
C15_PathLinks ==
    Returned =>
        /\ \A i \in 1..(Len(last.ret.path) - 1) :
              /\ heap[last.ret.path[i]].parent = last.ret.path[i + 1]
              /\ IsParentOfResult(heap, last.ret.path[i], last.ret.path[i + 1])
        /\ \/ heap[last.ret.root].parent = None
           \/ heap[heap[last.ret.root].parent].id = heap[last.who].id

\* a -> b -> a' with a' another allocation carrying the id of a.
C15_Witness ==
    /\ Returned
    /\ Len(last.ret.path) = 2
    /\ heap[last.ret.root].parent \notin {None, last.who}
    /\ heap[heap[last.ret.root].parent].id = heap[last.who].id

\* ---------------------------------------------------------------- C16
\* C16: root changes no node, and its result is a function of the heap and of
\* start: a call that follows a call root(start) with nothing in between
\* returns the same root and the same path.
C16_RootReadOnly ==
    /\ InRoot => heap = last.before
    /\ Returned =>
        /\ heap = last.before
        /\ RootResult(heap, last.who)
              = [term |-> TRUE, root |-> last.ret.root, path |-> last.ret.path]
        /\ Len(last.other) = 1 => last.ret = last.other[1]

\* The second of two calls root(start) in a row, on a chain of three.
C16_Witness ==
    /\ Returned
    /\ Len(last.other) = 1
    /\ Len(last.ret.path) = 3
    /\ last.ret = last.other[1]

\* ---------------------------------------------------------------- C17
\* No two allocations carry one id.
DistinctIds(h) == \A a, b \in NodeRefs(h) : a # b => h[a].id # h[b].id

NoRepeat(path) == \A i, j \in 1..Len(path) : i # j => path[i] # path[j]

\* C17: when ids are pairwise distinct, a returned path holds no node twice and
\* is no longer than the number of nodes, and root(s) does not terminate
\* exactly when the parent chain of s comes back to a node other than s.
C17_NoRepeat ==
    DistinctIds(heap) =>
        /\ Returned =>
            /\ NoRepeat(last.ret.path)
            /\ Len(last.ret.path) <= Len(heap)
        /\ \A s \in NodeRefs(heap) :
            RootResult(heap, s).term <=> ~ForeignCycle(heap, s)
        /\ InRoot =>
            /\ ForeignCycle(heap, initial) <=> ~RootResult(heap, initial).term
            /\ ForeignCycle(heap, initial) => LoopContinues
            /\ ~NoRepeat(parent_path) => ForeignCycle(heap, initial)
            /\ pc \in {"break", "return"} => NoRepeat(parent_path)

\* root(a) returned on the cycle a -> b -> a while c -> a has no result.
C17_Witness ==
    /\ DistinctIds(heap)
    /\ Returned
    /\ Len(last.ret.path) = 2
    /\ NoRepeat(last.ret.path)
    /\ \E s \in NodeRefs(heap) :
        /\ ForeignCycle(heap, s)
        /\ ~RootResult(heap, s).term

\* ---------------------------------------------------------------- C18
\* C18: the ordering of ids is a total order, by principal first and by role
\* second with Voter < Target, and two ids compare as Equal iff they are equal
\* under ==.
C18_IdOrder ==
    last.op = "cmp" =>
        /\ \A i, j \in NodeId :
            /\ NodeIdCmp(i, j) \in {"Less", "Equal", "Greater"}
            /\ (NodeIdCmp(i, j) = "Equal") <=> NodeIdEq(i, j)
            /\ (NodeIdCmp(i, j) = "Equal") <=> (i = j)
            /\ (NodeIdCmp(i, j) = "Less") <=> (NodeIdCmp(j, i) = "Greater")
            /\ i.who < j.who => NodeIdCmp(i, j) = "Less"
            /\ (i.who = j.who /\ i.role = "Voter" /\ j.role = "Target")
                  => NodeIdCmp(i, j) = "Less"
        /\ \A i, j, k \in NodeId :
            (NodeIdCmp(i, j) = "Less" /\ NodeIdCmp(j, k) = "Less")
                => NodeIdCmp(i, k) = "Less"
        /\ LET a == heap[last.who].id
               b == heap[last.other].id
           IN  /\ (last.ret = "Equal") <=> NodeRefEq(heap, last.who, last.other)
               /\ (last.ret = "Less") <=>
                     \/ a.who < b.who
                     \/ a.who = b.who /\ a.role = "Voter" /\ b.role = "Target"
               /\ (last.ret = "Greater") <=>
                     \/ a.who > b.who
                     \/ a.who = b.who /\ a.role = "Target" /\ b.role = "Voter"

\* The principal decides before the role: (1, Target) < (2, Voter).
C18_Witness ==
    /\ last.op = "cmp"
    /\ heap[last.who].id.who < heap[last.other].id.who
    /\ heap[last.who].id.role = "Target"
    /\ heap[last.other].id.role = "Voter"
    /\ last.ret = "Less"
====
